---- MODULE Spec2Model ----
(***************************************************************************)
(* Indian poker simulation (src/main.py): one session game(peoples, rounds) *)
(* as a state machine.  A session is constructed (IndianPokerGame.__init__), *)
(* then play_game runs play_round num_rounds times.  play_round is modelled  *)
(* one loop iteration per step, so that the order of its phases is visible:  *)
(* deal (lines 105-107), signal (109-117), decide (119-125), score (127-140).*)
(* An exception raised inside play_round propagates out of play_game and     *)
(* ends the session (pc = "error").                                          *)
(*                                                                           *)
(* Card values are Python strings and the source compares them with max()   *)
(* and ==, i.e. by code point, so the model does the same (StrLess).        *)
(* Honesty values and the draws of random.random() are rationals with the   *)
(* common denominator HonestyDen, held as their numerators.                 *)
(***************************************************************************)
EXTENDS Integers, Sequences, FiniteSets, TLC

\* ------------------------------------------------------------------ bounds
\* Sessions of 0..MaxPlayers players and 0..MaxRounds rounds are explored.
MaxPlayers == 3
MaxRounds == 3
\* Copies of each rank the deck is provisioned with.  The source uses
\* ENOUGH_CARD_SET = 10**3 (line 86); the model scales it down so that the
\* session can consume the whole deck within MaxRounds.
CardSets == 2
\* Honesty and random draws are multiples of 1/HonestyDen.
HonestyDen == 7
\* Numerators of the honesty values explored: 0, 2/7 (the decision threshold)
\* and 1.  IndianPokerGame draws honesty from [0,1); Player.__init__ accepts
\* any value, and 1.0 is the closed end of the honesty range.
HonestyNums == {0, 2, HonestyDen}
\* The ranks of card_order the model's deck is built from.
ModelRanks == {"2", "10", "K"}

\* --------------------------------------------------------------- constants
card_order == <<"2", "3", "4", "5", "6", "7", "8", "9", "10", "J", "Q", "K", "A">>

\* Deck.__init__: the number of copies of card_order in a new deck.  The model
\* builds its deck with CardSets copies of ModelRanks instead.
ENOUGH_CARD_SET == 1000

WINNING_SCORE == 5
LOSE_FOLD_SCORE == -1
LOSE_CALL_SCORE == -2

\* The int 0 that play_round initialises max_value with: no str equals it.
IntZero == "int(0)"

\* ------------------------------------------------------- Python str values
\* The code points of a card value's characters.
CodePoints(v) ==
    CASE v = "2" -> <<50>> [] v = "3" -> <<51>> [] v = "4" -> <<52>>
      [] v = "5" -> <<53>> [] v = "6" -> <<54>> [] v = "7" -> <<55>>
      [] v = "8" -> <<56>> [] v = "9" -> <<57>> [] v = "10" -> <<49, 48>>
      [] v = "J" -> <<74>> [] v = "Q" -> <<81>> [] v = "K" -> <<75>>
      [] v = "A" -> <<65>>

\* Python's str < str: lexicographic on code points, a proper prefix is less.
RECURSIVE SeqLess(_, _)
SeqLess(a, b) ==
    IF b = <<>> THEN FALSE
    ELSE IF a = <<>> THEN TRUE
    ELSE IF Head(a) # Head(b) THEN Head(a) < Head(b)
    ELSE SeqLess(Tail(a), Tail(b))

StrLess(a, b) == SeqLess(CodePoints(a), CodePoints(b))

\* max(...) over a non-empty collection of card values.
StrMax(S) == CHOOSE m \in S : \A v \in S : ~StrLess(m, v)

VARIABLES
    num_players,    \* peoples / len(self.players)
    num_rounds,     \* the argument of play_game
    honesty,        \* player index -> numerator of its honesty
    player_type,    \* player index -> "Rational" | "Random"
    card,           \* player index -> the value of the card it holds
    score,          \* player index -> cumulative score
    deck,           \* self.deck.cards as a multiset: value -> copies left
    rounds_done,    \* completed iterations of play_game's loop
    pc,             \* position in game(): see the actions
    idx,            \* iterations completed of the loop pc is in
    opponents_info, \* listener -> (speaker -> claim), play_round's local
    decisions,      \* player -> "Call" | "Fold", play_round's local
    max_value,      \* play_round's local
    err,            \* the exception that ended the session, or "none"
    score_start     \* history: score when the current round began

vars == <<num_players, num_rounds, honesty, player_type, card, score, deck,
          rounds_done, pc, idx, opponents_info, decisions, max_value, err,
          score_start>>

Players == 0 .. (num_players - 1)

EmptyMap == [x \in {} |-> TRUE]

DeckSize == LET RECURSIVE Sum(_)
                Sum(S) == IF S = {} THEN 0
                          ELSE LET v == CHOOSE x \in S : TRUE
                               IN deck[v] + Sum(S \ {v})
            IN Sum(DOMAIN deck)

\* ------------------------------------------------------------ construction
\* Player.__init__ with the two policies swapped (the variant C15 rules out).
M_PlayerType(isRational) == IF isRational THEN "Random" ELSE "Rational"

\* Player.__init__
PlayerType(isRational) == IF isRational THEN "Rational" ELSE "Random"

\* Deck.__init__: every rank, CardSets times.
NewDeck == [v \in ModelRanks |-> CardSets]

\* game(peoples, rounds) after IndianPokerGame(peoples), before play_game.
Init ==
    /\ num_players \in 0 .. MaxPlayers
    /\ num_rounds \in 0 .. MaxRounds
    /\ honesty \in [0 .. (num_players - 1) -> HonestyNums]
    /\ player_type = [i \in 0 .. (num_players - 1) |-> PlayerType(i % 2 = 0)]
    /\ card = [i \in 0 .. (num_players - 1) |-> "2"]
    /\ score = [i \in 0 .. (num_players - 1) |-> 0]
    /\ deck = NewDeck
    /\ rounds_done = 0
    /\ pc = "play_game"
    /\ idx = 0
    /\ opponents_info = EmptyMap
    /\ decisions = EmptyMap
    /\ max_value = IntZero
    /\ err = "none"
    /\ score_start = score

\* ---------------------------------------------------------------- play_game
\* for _ in range(num_rounds): self.play_round() -- entering play_round,
\* whose first statement shuffles the deck (the multiset is unchanged).
\* A round that begins with a newly built deck (the variant C19 rules out).
M_StartRoundNewDeck ==
    /\ pc = "play_game"
    /\ rounds_done < num_rounds
    /\ pc' = "deal"
    /\ idx' = 0
    /\ deck' = [v \in ModelRanks |-> CardSets]
    /\ UNCHANGED <<num_players, num_rounds, honesty, player_type, card, score,
                   rounds_done, opponents_info, decisions, max_value, err,
                   score_start>>

StartRound ==
    /\ pc = "play_game"
    /\ rounds_done < num_rounds
    /\ pc' = "deal"
    /\ idx' = 0
    /\ UNCHANGED <<num_players, num_rounds, honesty, player_type, card, score,
                   deck, rounds_done, opponents_info, decisions, max_value, err,
                   score_start>>

\* The loop of play_game is over: game() returns get_scores().
Finish ==
    /\ pc = "play_game"
    /\ rounds_done >= num_rounds
    /\ pc' = "done"
    /\ UNCHANGED <<num_players, num_rounds, honesty, player_type, card, score,
                   deck, rounds_done, idx, opponents_info, decisions,
                   max_value, err,
                   score_start>>

\* --------------------------------------------------------------------- deal
\* Deck.draw: self.cards.pop() of the shuffled list yields any card left.
DrawEnabled == DeckSize > 0

\* A deal that charges the player LOSE_FOLD_SCORE as an ante when its card is
\* drawn (the variant C20 rules out).
M_DealAnte ==
    /\ pc = "deal"
    /\ idx < num_players
    /\ DeckSize > 0
    /\ \E v \in DOMAIN deck :
          /\ deck[v] > 0
          /\ deck' = [deck EXCEPT ![v] = @ - 1]
          /\ card' = [card EXCEPT ![idx] = v]
    /\ score' = [score EXCEPT ![idx] = @ + LOSE_FOLD_SCORE]
    /\ idx' = idx + 1
    /\ UNCHANGED <<num_players, num_rounds, honesty, player_type,
                   rounds_done, pc, opponents_info, decisions, max_value, err,
                   score_start>>

\* player.card = self.deck.draw() for the player at index idx.
Deal ==
    /\ pc = "deal"
    /\ idx < num_players
    /\ DrawEnabled
    /\ \E v \in DOMAIN deck :
          /\ deck[v] > 0
          /\ deck' = [deck EXCEPT ![v] = @ - 1]
          /\ card' = [card EXCEPT ![idx] = v]
    /\ idx' = idx + 1
    /\ UNCHANGED <<num_players, num_rounds, honesty, player_type, score,
                   rounds_done, pc, opponents_info, decisions, max_value, err,
                   score_start>>

\* A draw on an empty deck that hands out the default card "2" and goes on
\* (the variant C14 rules out).
M_DealEmpty ==
    /\ pc = "deal"
    /\ idx < num_players
    /\ ~DrawEnabled
    /\ card' = [card EXCEPT ![idx] = "2"]
    /\ idx' = idx + 1
    /\ UNCHANGED <<num_players, num_rounds, honesty, player_type, score, deck,
                   rounds_done, pc, opponents_info, decisions, max_value, err,
                   score_start>>

\* list.pop() on an empty list raises IndexError.
DealEmpty ==
    /\ pc = "deal"
    /\ idx < num_players
    /\ ~DrawEnabled
    /\ pc' = "error"
    /\ err' = "IndexError"
    /\ UNCHANGED <<num_players, num_rounds, honesty, player_type, card, score,
                   deck, rounds_done, idx, opponents_info, decisions, max_value,
                   score_start>>

\* opponents_info = {player: {} for player in self.players}
BeginSignal ==
    /\ pc = "deal"
    /\ idx = num_players
    /\ opponents_info' = [p \in Players |-> EmptyMap]
    /\ pc' = "signal"
    /\ idx' = 0
    /\ UNCHANGED <<num_players, num_rounds, honesty, player_type, card, score,
                   deck, rounds_done, decisions, max_value, err,
                   score_start>>

\* ------------------------------------------------------------------- signal
\* The nested loops of lines 112-117 visit the ordered pairs (player,
\* opponent), player ascending, opponent ascending over opponents_list.
NumPairs == num_players * (num_players - 1)
SpeakerOf(k) == k \div (num_players - 1)
\* ListenerOf without the skip over the speaker itself (the variant C17 rules
\* out).
M_ListenerOf(k) == k % (num_players - 1)

ListenerOf(k) == LET j == k % (num_players - 1)
                 IN IF j < SpeakerOf(k) THEN j ELSE j + 1

\* opponents_list = [p for p in self.players if p != player]
OpponentsList(player) == Players \ {player}

\* tell_truth comparing with <= : a draw equal to the honesty still tells the
\* truth (the variant C12 rules out).
M_tell_truth(h, maximum, r) == IF r <= h THEN maximum ELSE ~maximum

\* Player.tell_truth, r the numerator of random.random()
tell_truth(h, maximum, r) == IF r < h THEN maximum ELSE ~maximum

\* is_truely_max of Player.tell_opponent_max
is_truely_max(opponent, opponents_list) ==
    card[opponent] = StrMax({card[o] : o \in opponents_list})

Signal ==
    /\ pc = "signal"
    /\ idx < NumPairs
    /\ LET player == SpeakerOf(idx)
           opponent == ListenerOf(idx)
       IN \E r \in 0 .. (HonestyDen - 1) :
            opponents_info' =
              [opponents_info EXCEPT ![opponent] =
                 (player :> tell_truth(honesty[player],
                                       is_truely_max(opponent, OpponentsList(player)),
                                       r)) @@ @]
    /\ idx' = idx + 1
    /\ UNCHANGED <<num_players, num_rounds, honesty, player_type, card, score,
                   deck, rounds_done, pc, decisions, max_value, err,
                   score_start>>

\* BeginDecide leaving the signal loop before its last pair (the variant C10
\* rules out).
M_BeginDecide ==
    /\ pc = "signal"
    /\ idx <= NumPairs
    /\ pc' = "decide"
    /\ idx' = 0
    /\ decisions' = EmptyMap
    /\ UNCHANGED <<num_players, num_rounds, honesty, player_type, card, score,
                   deck, rounds_done, opponents_info, max_value, err,
                   score_start>>

\* decisions = {...}: the signal loops are over, the comprehension starts.
BeginDecide ==
    /\ pc = "signal"
    /\ idx = NumPairs
    /\ pc' = "decide"
    /\ idx' = 0
    /\ decisions' = EmptyMap
    /\ UNCHANGED <<num_players, num_rounds, honesty, player_type, card, score,
                   deck, rounds_done, opponents_info, max_value, err,
                   score_start>>

\* ------------------------------------------------------------------- decide
\* Player.calc_weighed_ave_possibility: the sum of is_max * opponent.honesty
\* over the claims received, divided by their number; an exact fraction
\* num / den with den = HonestyDen * len(opponents_info).
calc_weighed_ave_possibility(info) ==
    LET RECURSIVE Sum(_)
        Sum(S) == IF S = {} THEN 0
                  ELSE LET o == CHOOSE x \in S : TRUE
                       IN (IF info[o] THEN honesty[o] ELSE 0) + Sum(S \ {o})
    IN [num |-> Sum(DOMAIN info),
        den |-> HonestyDen * Cardinality(DOMAIN info)]

\* expected_value of Player.make_decision, times the (positive) denominator
\* of weighed_ave_possibility.
expected_value(p) ==
    p.num * WINNING_SCORE + (p.den - p.num) * LOSE_CALL_SCORE

\* RationalDecision calling at expected value 0 too (the variant C9 rules out).
M_RationalDecision(info) ==
    IF expected_value(calc_weighed_ave_possibility(info)) >= 0
    THEN "Call" ELSE "Fold"

\* RationalDecision of a player that looks at its own card and calls when no
\* card at the table beats it (the variant C11 rules out).
M_RationalDecisionPeeks(info) ==
    IF card[idx] = StrMax({card[p] : p \in Players})
       \/ expected_value(calc_weighed_ave_possibility(info)) > 0
    THEN "Call" ELSE "Fold"

\* Lines 60-72 of Player.make_decision: the rational player.
RationalDecision(info) ==
    IF expected_value(calc_weighed_ave_possibility(info)) > 0
    THEN "Call" ELSE "Fold"

\* What make_decision may return for `player`, given the claims about it.
make_decision(player, info) ==
    IF player_type[player] = "Random"
    THEN {"Call", "Fold"}
    ELSE {RationalDecision(info)}

\* Decide charging a fold to the score as soon as it is decided (the variant
\* C16 rules out).
M_DecideScoresFold ==
    /\ pc = "decide"
    /\ idx < num_players
    /\ OpponentsList(idx) # {}
    /\ \E d \in make_decision(idx, opponents_info[idx]) :
          /\ decisions' = (idx :> d) @@ decisions
          /\ score' = [score EXCEPT
                         ![idx] = @ + (IF d = "Fold" THEN LOSE_FOLD_SCORE ELSE 0)]
    /\ idx' = idx + 1
    /\ UNCHANGED <<num_players, num_rounds, honesty, player_type, card,
                   deck, rounds_done, pc, opponents_info, max_value, err,
                   score_start>>

\* decisions[player] = player.make_decision(...) for the player at idx.
Decide ==
    /\ pc = "decide"
    /\ idx < num_players
    /\ OpponentsList(idx) # {}
    /\ \E d \in make_decision(idx, opponents_info[idx]) :
          decisions' = (idx :> d) @@ decisions
    /\ idx' = idx + 1
    /\ UNCHANGED <<num_players, num_rounds, honesty, player_type, card, score,
                   deck, rounds_done, pc, opponents_info, max_value, err,
                   score_start>>

\* Line 54: max() of an empty sequence raises ValueError when the player has
\* no opponent, whatever its type.
DecideNoOpponents ==
    /\ pc = "decide"
    /\ idx < num_players
    /\ OpponentsList(idx) = {}
    /\ pc' = "error"
    /\ err' = "ValueError"
    /\ UNCHANGED <<num_players, num_rounds, honesty, player_type, card, score,
                   deck, rounds_done, idx, opponents_info, decisions,
                   max_value, score_start>>

\* -------------------------------------------------------------------- score
\* called_players = [p for p in self.players if decisions[p] == "Call"]
called_players == {p \in DOMAIN decisions : decisions[p] = "Call"}

\* max_value taken over the cards of all players, folded ones included (the
\* variant C18 rules out).
M_MaxValue(called) ==
    IF Cardinality(called) > 0
    THEN StrMax({card[p] : p \in Players})
    ELSE IntZero

\* Lines 129-131: max_value stays 0 when nobody called.
MaxValue(called) ==
    IF Cardinality(called) > 0
    THEN StrMax({card[p] : p \in called})
    ELSE IntZero

BeginScore ==
    /\ pc = "decide"
    /\ idx = num_players
    /\ max_value' = MaxValue(called_players)
    /\ pc' = "score"
    /\ idx' = 0
    /\ UNCHANGED <<num_players, num_rounds, honesty, player_type, card, score,
                   deck, rounds_done, opponents_info, decisions, err,
                   score_start>>

\* ScoreDelta with the two losing constants swapped (the variant C6 rules out).
M_ScoreDelta(decision, value, maxv) ==
    IF decision = "Fold" THEN LOSE_CALL_SCORE
    ELSE IF value = maxv THEN WINNING_SCORE
    ELSE LOSE_FOLD_SCORE

\* Lines 134-140: what one player's score changes by.
ScoreDelta(decision, value, maxv) ==
    IF decision = "Fold" THEN LOSE_FOLD_SCORE
    ELSE IF value = maxv THEN WINNING_SCORE
    ELSE LOSE_CALL_SCORE

\* One iteration of `for player, decision in decisions.items()`; a dict
\* iterates in insertion order, which is the order of self.players.
Score ==
    /\ pc = "score"
    /\ idx < num_players
    /\ score' = [score EXCEPT
                   ![idx] = @ + ScoreDelta(decisions[idx], card[idx], max_value)]
    /\ idx' = idx + 1
    /\ UNCHANGED <<num_players, num_rounds, honesty, player_type, card, deck,
                   rounds_done, pc, opponents_info, decisions, max_value, err,
                   score_start>>

\* play_round returns: its locals are gone, play_game's loop goes on.
EndRound ==
    /\ pc = "score"
    /\ idx = num_players
    /\ rounds_done' = rounds_done + 1
    /\ pc' = "play_game"
    /\ idx' = 0
    /\ opponents_info' = EmptyMap
    /\ decisions' = EmptyMap
    /\ max_value' = IntZero
    /\ score_start' = score
    /\ UNCHANGED <<num_players, num_rounds, honesty, player_type, card, score,
                   deck, err>>

Next ==
    \/ StartRound
    \/ Finish
    \/ Deal
    \/ DealEmpty
    \/ BeginSignal
    \/ Signal
    \/ BeginDecide
    \/ Decide
    \/ DecideNoOpponents
    \/ BeginScore
    \/ Score
    \/ EndRound

Spec == Init /\ [][Next]_vars

\* Sessions of up to MaxPlayers + 1 players whose honesty is 0.0 or 1.0, so
\* that every claim is determined by the cards: the same construction and the
\* same steps, on a wider table.
InitWide ==
    /\ num_players \in 0 .. (MaxPlayers + 1)
    /\ num_rounds \in 0 .. MaxRounds
    /\ honesty \in [0 .. (num_players - 1) -> {0, HonestyDen}]
    /\ player_type = [i \in 0 .. (num_players - 1) |-> PlayerType(i % 2 = 0)]
    /\ card = [i \in 0 .. (num_players - 1) |-> "2"]
    /\ score = [i \in 0 .. (num_players - 1) |-> 0]
    /\ deck = NewDeck
    /\ rounds_done = 0
    /\ pc = "play_game"
    /\ idx = 0
    /\ opponents_info = EmptyMap
    /\ decisions = EmptyMap
    /\ max_value = IntZero
    /\ err = "none"
    /\ score_start = score

SpecWide == InitWide /\ [][Next]_vars

\* =================================================================== claims
\* The position of a card value in card_order: the rank order of the game.
RankIndex(v) == CHOOSE i \in 1 .. Len(card_order) : card_order[i] = v

\* What the score of p has changed by since the current round began.
Delta(p) == score[p] - score_start[p]

\* play_round's scoring loop has run to its end.
RoundScored == pc = "score" /\ idx = num_players

\* The highest rank index held by a caller.
TopCallerRank == CHOOSE m \in {RankIndex(card[q]) : q \in called_players} :
                    \A q \in called_players : RankIndex(card[q]) <= m

\* C1: when a round has been scored, a calling player has received
\* WINNING_SCORE if and only if no other calling player holds a card of
\* strictly higher rank index (2 < 3 < ... < 10 < J < Q < K < A).
C1_RankOrderDecidesWinner ==
    RoundScored =>
        \A p \in called_players :
            (Delta(p) = WINNING_SCORE)
                <=> (\A q \in called_players :
                        RankIndex(card[q]) <= RankIndex(card[p]))

\* The ground truth the claim C2 describes, about `listener`: its card is the
\* maximum among all players except the listener, the maximum taken by rank
\* index (ByRank) or as the source compares values (ByStr).
TruthExceptListenerByRank(listener) ==
    \A o \in Players \ {listener} : RankIndex(card[o]) <= RankIndex(card[listener])
TruthExceptListenerByStr(listener) ==
    card[listener] = StrMax({card[o] : o \in Players \ {listener}})

\* C2: every claim a speaker makes about a listener is tell_truth applied to
\* "the listener's card equals the maximum card among all players except the
\* listener", for some outcome of the random draw.  The formula accepts either
\* reading of "maximum", so a violation refutes the comparison group itself.
C2_TruthComparesAllButListener ==
    [][(pc = "signal" /\ idx < NumPairs) =>
         LET s == SpeakerOf(idx)
             l == ListenerOf(idx)
         IN \E r \in 0 .. (HonestyDen - 1) :
               \/ opponents_info'[l][s] =
                     tell_truth(honesty[s], TruthExceptListenerByRank(l), r)
               \/ opponents_info'[l][s] =
                     tell_truth(honesty[s], TruthExceptListenerByStr(l), r)]_vars

\* C3: at every deal step the deck holds at least one card for each player
\* still to be dealt, so that no draw is attempted on an empty deck.
C3_DeckNeverExhausted ==
    /\ err # "IndexError"
    /\ pc = "deal" => DeckSize >= num_players - idx

\* C4: a session with fewer than 2 players never reaches the deal, signal or
\* decision step of a round (its construction has failed).
C4_NoRoundBelowTwoPlayers ==
    num_players < 2 => pc \notin {"deal", "signal", "decide", "score"}

\* C5: within a round each player's score changes by one update, of exactly
\* one of the three constants: LOSE_FOLD_SCORE iff it folded, WINNING_SCORE iff
\* it called and its card is the maximum (by rank) among the callers,
\* LOSE_CALL_SCORE iff it called and its card is not that maximum.
C5_ScoreBookkeeping ==
    pc = "score" =>
        \A p \in Players :
            IF p >= idx THEN Delta(p) = 0
            ELSE /\ Delta(p) \in {WINNING_SCORE, LOSE_FOLD_SCORE, LOSE_CALL_SCORE}
                 /\ (Delta(p) = LOSE_FOLD_SCORE) <=> (decisions[p] = "Fold")
                 /\ (Delta(p) = WINNING_SCORE)
                       <=> (decisions[p] = "Call"
                            /\ RankIndex(card[p]) = TopCallerRank)
                 /\ (Delta(p) = LOSE_CALL_SCORE)
                       <=> (decisions[p] = "Call"
                            /\ RankIndex(card[p]) # TopCallerRank)

\* Every player has decided, and decided to fold.
AllFolded == DOMAIN decisions = Players /\ \A p \in Players : decisions[p] = "Fold"

\* C6: a round in which every player has folded is in its decision or scoring
\* step with no exception raised; in the scoring step no winner is computed
\* (max_value keeps its initial 0) and each player's score goes down by
\* exactly 1, once.
C6_AllFoldRound ==
    (AllFolded /\ num_players > 0) =>
        /\ pc \in {"decide", "score"}
        /\ err = "none"
        /\ pc = "score" =>
              /\ max_value = IntZero
              /\ \A p \in Players :
                    Delta(p) = IF p < idx THEN -1 ELSE 0

\* A round of at least two players, all folded, scored to its end.
C6_Witness ==
    RoundScored /\ AllFolded /\ num_players >= 2

\* C7: when a round has been scored, every caller whose rank equals the
\* highest rank held by any caller has received WINNING_SCORE.
C7_TopRankCallersWin ==
    RoundScored =>
        \A p \in called_players :
            RankIndex(card[p]) = TopCallerRank => Delta(p) = WINNING_SCORE

\* The claims about every player are complete: one from each other player.
AllSignaled ==
    /\ DOMAIN opponents_info = Players
    /\ \A l \in Players : DOMAIN opponents_info[l] = Players \ {l}

\* C8: two players of honesty 1.0 hold K and 2.  The holder of 2 has received
\* the claim FALSE from the other player; if it is Rational it folds, and its
\* score changes by LOSE_FOLD_SCORE.
C8_TruthfulPairLowCardFolds ==
    \A p \in Players :
        LET q == 1 - p
        IN (/\ num_players = 2
            /\ honesty[p] = HonestyDen /\ honesty[q] = HonestyDen
            /\ card[p] = "2" /\ card[q] = "K"
            /\ pc \in {"decide", "score"}
            /\ player_type[p] = "Rational")
           => /\ opponents_info[p][q] = FALSE
              /\ p \in DOMAIN decisions => decisions[p] = "Fold"
              /\ RoundScored => Delta(p) = LOSE_FOLD_SCORE

\* The weighted belief of p over all its opponents, as the fraction
\* BeliefNum(p) / BeliefDen: each opponent contributes its honesty when its
\* claim about p is TRUE and 0 otherwise.
BeliefNum(p) ==
    LET RECURSIVE Sum(_)
        Sum(S) == IF S = {} THEN 0
                  ELSE LET o == CHOOSE x \in S : TRUE
                       IN (IF opponents_info[p][o] THEN honesty[o] ELSE 0)
                          + Sum(S \ {o})
    IN Sum(Players \ {p})
BeliefDen == HonestyDen * (num_players - 1)

\* C9: a Rational player's recorded decision is Call if and only if its
\* weighted belief is strictly greater than 2/7; at 2/7 exactly it is Fold.
C9_RationalThreshold ==
    \A p \in DOMAIN decisions :
        player_type[p] = "Rational" =>
            (decisions[p] = "Call" <=> 7 * BeliefNum(p) > 2 * BeliefDen)

\* A Rational player whose belief is exactly 2/7 has folded.
C9_Witness ==
    \E p \in DOMAIN decisions :
        /\ player_type[p] = "Rational"
        /\ 7 * BeliefNum(p) = 2 * BeliefDen
        /\ decisions[p] = "Fold"

\* Cards drawn from the deck since the current round began.
DealtThisRound ==
    (Cardinality(ModelRanks) * CardSets - DeckSize) - num_players * rounds_done

\* Some claim has been produced in the current round.
SomeSignal == \E l \in DOMAIN opponents_info : DOMAIN opponents_info[l] # {}

\* C10: the phases of a round are strictly ordered.  A claim exists only once
\* every player has been dealt its card of this round; a decision exists only
\* once all num_players * (num_players - 1) claims exist; a score has changed
\* only once every player has decided; and a Rational player's decision is
\* the one its received claims determine, whatever the others decided.
C10_PhaseOrder ==
    /\ SomeSignal => DealtThisRound = num_players
    /\ DOMAIN decisions # {} => (AllSignaled /\ DealtThisRound = num_players)
    /\ score # score_start => (DOMAIN decisions = Players /\ AllSignaled)
    /\ \A p \in DOMAIN decisions :
          player_type[p] = "Rational" =>
              decisions[p] = (IF 7 * BeliefNum(p) > 2 * BeliefDen
                              THEN "Call" ELSE "Fold")

\* Three players, all dealt, all six claims made, all decided, and the first
\* score of the round updated.
C10_Witness ==
    /\ num_players = 3
    /\ pc = "score" /\ idx = 1
    /\ score # score_start
    /\ AllSignaled
    /\ DOMAIN decisions = Players

\* The k-th opponent of p, in the order of self.players.
OpponentAt(p, k) == IF k < p THEN k ELSE k + 1

\* What p has received: for each opponent in order, the claim it sent about p
\* and the honesty of that sender.
ReceivedPairs(p) ==
    [k \in 1 .. (num_players - 1) |->
        <<opponents_info[p][OpponentAt(p, k - 1)], honesty[OpponentAt(p, k - 1)]>>]

\* A decision computed from a sequence of <<claim, sender honesty>> pairs and
\* from nothing else: no card and no honesty of the decider enters it.
RECURSIVE PairsSum(_)
PairsSum(pairs) ==
    IF pairs = <<>> THEN 0
    ELSE (IF Head(pairs)[1] THEN Head(pairs)[2] ELSE 0) + PairsSum(Tail(pairs))
DecisionOfPairs(pairs) ==
    IF 7 * PairsSum(pairs) > 2 * HonestyDen * Len(pairs) THEN "Call" ELSE "Fold"

\* C11: a Rational player's decision is a function of the claims it received
\* and the honesty of their senders alone: it equals DecisionOfPairs of what
\* it received, and two Rational players of one round that received the same
\* pairs have decided alike, whatever cards they and their opponents hold.
C11_DecisionFromClaimsOnly ==
    /\ \A p \in DOMAIN decisions :
          player_type[p] = "Rational" =>
              decisions[p] = DecisionOfPairs(ReceivedPairs(p))
    /\ \A p, q \in DOMAIN decisions :
          (/\ player_type[p] = "Rational"
           /\ player_type[q] = "Rational"
           /\ ReceivedPairs(p) = ReceivedPairs(q))
          => decisions[p] = decisions[q]

\* Two Rational players received the same pairs and decided, while their own
\* cards differ and the cards of their opponents differ.
C11_Witness ==
    \E p, q \in DOMAIN decisions :
        /\ p # q
        /\ player_type[p] = "Rational"
        /\ player_type[q] = "Rational"
        /\ ReceivedPairs(p) = ReceivedPairs(q)
        /\ card[p] # card[q]
        /\ \E k \in 0 .. (num_players - 2) :
              card[OpponentAt(p, k)] # card[OpponentAt(q, k)]

\* C12: in every signal step, with `truth` the ground truth the speaker passes
\* to tell_truth: for every draw r in [0,1), tell_truth returns truth when the
\* draw is below the speaker's honesty and its negation otherwise; so the claim
\* recorded is truth when the honesty is 1.0, the negation when it is 0.0, and
\* in every case the value for some draw.
C12_TellTruthByDraw ==
    [][(pc = "signal" /\ idx < NumPairs) =>
         LET s == SpeakerOf(idx)
             l == ListenerOf(idx)
             truth == is_truely_max(l, OpponentsList(s))
             said == opponents_info'[l][s]
         IN /\ \A r \in 0 .. (HonestyDen - 1) :
                  tell_truth(honesty[s], truth, r)
                     = (IF r < honesty[s] THEN truth ELSE ~truth)
            /\ honesty[s] = HonestyDen => said = truth
            /\ honesty[s] = 0 => said = ~truth
            /\ \E r \in 0 .. (HonestyDen - 1) :
                  said = (IF r < honesty[s] THEN truth ELSE ~truth)]_vars

\* Three speakers of honesty 1.0, 0.0 and in between have each made a claim:
\* the first the truth, the second its negation, the third a lie as well.
C12_Witness ==
    /\ num_players = 3
    /\ pc = "decide"
    /\ \E s1, s2, s3 \in Players :
          /\ honesty[s1] = HonestyDen /\ honesty[s2] = 0
          /\ honesty[s3] \notin {0, HonestyDen}
          /\ \E l \in Players \ {s1} :
                opponents_info[l][s1] = is_truely_max(l, OpponentsList(s1))
          /\ \E l \in Players \ {s2} :
                opponents_info[l][s2] = ~is_truely_max(l, OpponentsList(s2))
          /\ \E l \in Players \ {s3} :
                opponents_info[l][s3] = ~is_truely_max(l, OpponentsList(s3))

\* C13: a session of at least two players never aborts: play_game runs
\* play_round num_rounds times, never more, and game() returns only then.
C13_GameRunsAllRounds ==
    num_players >= 2 =>
        /\ pc # "error"
        /\ rounds_done <= num_rounds
        /\ pc = "done" => rounds_done = num_rounds

\* A draw is about to be made on a deck that holds no cards.
DrawOnEmptyDeck == pc = "deal" /\ idx < num_players /\ DeckSize = 0

C15_PolicyAlternates ==
    /\ DOMAIN player_type = Players
    /\ \A i \in Players :
          /\ player_type[i] = "Rational" <=> i % 2 = 0
          /\ player_type[i] = "Random" <=> i % 2 = 1

\* A 4-player session after a completed round: 0 and 2 Rational, 1 and 3
\* Random.
C15_Witness ==
    /\ num_players = 4
    /\ rounds_done >= 1
    /\ player_type[0] = "Rational" /\ player_type[2] = "Rational"
    /\ player_type[1] = "Random" /\ player_type[3] = "Random"

\* C16: no step of a session changes a player's honesty or policy type, or
\* the number (and so the set and order) of players; the deal, signal and
\* decision steps leave every score as it is, and a scoring step changes the
\* score of the player it scores and of nobody else.
C16_RoundFrame ==
    [][/\ honesty' = honesty
       /\ player_type' = player_type
       /\ num_players' = num_players
       /\ DOMAIN score' = DOMAIN score
       /\ DOMAIN card' = DOMAIN card
       /\ pc # "score" => score' = score
       /\ pc = "score" => \A p \in Players \ {idx} : score'[p] = score[p]]_vars

\* The second round of a session of at least two players has been scored and
\* every score has changed in it.
C16_Witness ==
    /\ RoundScored
    /\ num_players >= 2
    /\ rounds_done >= 1
    /\ \A p \in Players : Delta(p) # 0

\* The <<listener, speaker>> pairs for which a claim is held.
ClaimsHeld ==
    {ls \in Players \X Players :
        /\ ls[1] \in DOMAIN opponents_info
        /\ ls[2] \in DOMAIN opponents_info[ls[1]]}

\* C17: when the decision phase runs, the claims map of every listener holds
\* one claim from each other player and none from the listener itself.  They
\* are all of the current round: no claim is held between rounds or while the
\* cards are dealt, and in the signal phase exactly as many claims are held as
\* signal steps of this round have run.
C17_FreshCompleteClaims ==
    /\ pc = "decide" =>
          /\ DOMAIN opponents_info = Players
          /\ \A l \in Players : DOMAIN opponents_info[l] = Players \ {l}
    /\ pc \in {"play_game", "deal"} => ClaimsHeld = {}
    /\ pc = "signal" => Cardinality(ClaimsHeld) = idx

\* The decision phase of a later round of three players begins: six claims.
C17_Witness ==
    /\ pc = "decide" /\ idx = 0
    /\ num_players = 3
    /\ rounds_done >= 1
    /\ Cardinality(ClaimsHeld) = 6

\* C18: when a round in which somebody called has been scored, at least one
\* caller has received WINNING_SCORE; and every player that folded has
\* received LOSE_FOLD_SCORE, never WINNING_SCORE or LOSE_CALL_SCORE, whatever
\* card it holds.
C18_CallersHoldAWinner ==
    RoundScored =>
        /\ called_players # {} =>
              \E p \in called_players : Delta(p) = WINNING_SCORE
        /\ \A p \in Players \ called_players :
              /\ Delta(p) = LOSE_FOLD_SCORE
              /\ Delta(p) \notin {WINNING_SCORE, LOSE_CALL_SCORE}

\* A scored round of three players in which a player that folded holds a card
\* above, as strings, the cards of the two callers.
C18_Witness ==
    /\ RoundScored
    /\ num_players = 3
    /\ Cardinality(called_players) = 2
    /\ \E f \in Players \ called_players :
          \A p \in called_players : StrLess(card[p], card[f])

\* The number of cards of a new deck of the model.
FullDeck == Cardinality(ModelRanks) * CardSets

\* C19: a new deck holds Len(card_order) * ENOUGH_CARD_SET = 13000 cards (in
\* the model: FullDeck).  The deck is only consumed: between rounds and at the
\* end of a session it is short of exactly num_players cards per completed
\* round, during a deal of one more card per player served, and after the
\* deal of num_players more; no rank ever holds more cards than at first.
C19_DeckOnlyConsumed ==
    /\ Len(card_order) * ENOUGH_CARD_SET = 13000
    /\ DOMAIN deck = ModelRanks
    /\ \A v \in ModelRanks : deck[v] <= CardSets
    /\ pc \in {"play_game", "done"} =>
          DeckSize = FullDeck - rounds_done * num_players
    /\ pc = "deal" =>
          DeckSize = FullDeck - rounds_done * num_players - idx
    /\ pc \in {"signal", "decide", "score"} =>
          DeckSize = FullDeck - (rounds_done + 1) * num_players

\* Two rounds of at least two players are complete.
C19_Witness ==
    /\ pc = "play_game"
    /\ rounds_done = 2
    /\ num_players >= 2
    /\ DeckSize = FullDeck - 2 * num_players

\* C20: a round that has stopped with an error has changed no score: every
\* score is the one left by the last completed round.
C20_AbortKeepsScores ==
    pc = "error" => score = score_start

\* A later round stopped by a failed draw after some of its cards were dealt,
\* the scores of the earlier round in place.
C20_Witness ==
    /\ pc = "error"
    /\ err = "IndexError"
    /\ idx > 0
    /\ rounds_done >= 1
    /\ \E p \in Players : score[p] # 0

====
